---- MODULE Spec2Model ----
(***************************************************************************)
(* Model of dashboard.py: one Streamlit script run (a request) walks the   *)
(* script top to bottom: load_data, the raw-data expander, the required    *)
(* column check, the season select boxes, the club multiselect and the     *)
(* filter, the overview metrics and the four tabs of derived tables.       *)
(* st.stop() and an uncaught exception both end the run.                   *)
(*                                                                         *)
(* Team names are modelled by naturals whose order is the lexicographic    *)
(* order of the names (sorted() and groupby order by it).  A float is a    *)
(* record [k, n, d]: k = "num" is the rational n/d in lowest terms,        *)
(* k = "inf" and k = "nan" are IEEE +inf and NaN (all counts in the data   *)
(* are non-negative, so -inf does not arise).                              *)
(***************************************************************************)
EXTENDS Integers, Sequences, FiniteSets, TLC

VARIABLES
    pc,             \* position of the script run
    first,          \* TRUE in the first run of a session (widgets hold defaults)
    uploaded_file,  \* what st.file_uploader returned
    file,           \* the content of the file that is read
    df,             \* the DataFrame load_data returned
    err,            \* the error this run reported ("none" if none)
    missing_cols,   \* the columns the error message lists
    out,            \* the elements this run has rendered, in order
    seasons, start_season, end_season, selected_clubs,
    filtered_df,
    metrics, win_pct_df, ga_df, goals_df, avg_pos, avg_pts

vars == <<pc, first, uploaded_file, file, df, err, missing_cols, out, seasons,
          start_season, end_season, selected_clubs, filtered_df, metrics,
          win_pct_df, ga_df, goals_df, avg_pos, avg_pts>>

---------------------------------------------------------------------------
(* Bounds of the model *)
MaxRows == 3
MaxAggRows == 3
NumRankTeams == 11

(* Program constants *)
TopN == 10
LatestSeasonPreferred == 2024
StartIndexOffset == 3
EndIndexOffset == 1

Teams == {1, 2}
Years == {2022, 2023, 2024, 2025}

---------------------------------------------------------------------------
(* Floats *)
Min(a, b) == IF a < b THEN a ELSE b

RECURSIVE GCD(_, _)
GCD(a, b) == IF b = 0 THEN a ELSE GCD(b, a % b)

NaN == [k |-> "nan", n |-> 0, d |-> 0]
Inf == [k |-> "inf", n |-> 0, d |-> 0]
Frac(n, d) == LET g == GCD(n, d) IN [k |-> "num", n |-> n \div g, d |-> d \div g]

\* int / int as pandas divides two integer columns: x/0 is inf, 0/0 is NaN
TrueDiv(a, b) == IF b # 0 THEN Frac(a, b) ELSE IF a = 0 THEN NaN ELSE Inf

FMul(x, c) == IF x.k = "num" THEN Frac(x.n * c, x.d) ELSE x

FAdd(x, y) ==
    IF x.k = "nan" \/ y.k = "nan" THEN NaN
    ELSE IF x.k = "inf" \/ y.k = "inf" THEN Inf
    ELSE Frac(x.n * y.d + y.n * x.d, x.d * y.d)

FDivInt(x, c) == IF x.k = "num" THEN Frac(x.n, x.d * c) ELSE x

\* x < y on floats; every comparison with NaN is false
FLess(x, y) ==
    /\ x.k # "nan" /\ y.k # "nan"
    /\ \/ x.k = "num" /\ y.k = "inf"
       \/ x.k = "num" /\ y.k = "num" /\ x.n * y.d < y.n * x.d

\* round(x, 1): to one decimal, halves to even; NaN and inf pass through
Round1(x) ==
    IF x.k # "num" THEN x
    ELSE LET t == 10 * x.n
             q == t \div x.d
             r == t % x.d
             up == 2 * r > x.d \/ (2 * r = x.d /\ q % 2 = 1)
         IN Frac(IF up THEN q + 1 ELSE q, 10)

---------------------------------------------------------------------------
(* Sequences *)
RECURSIVE SetToSortedSeq(_)
SetToSortedSeq(S) ==
    IF S = {} THEN <<>>
    ELSE LET m == CHOOSE x \in S : \A y \in S : x <= y
         IN <<m>> \o SetToSortedSeq(S \ {m})

Range(s) == {s[i] : i \in DOMAIN s}

RECURSIVE SumInts(_)
SumInts(s) == IF s = <<>> THEN 0 ELSE Head(s) + SumInts(Tail(s))

RECURSIVE SumFloats(_)
SumFloats(s) == IF s = <<>> THEN Frac(0, 1) ELSE FAdd(Head(s), SumFloats(Tail(s)))

Column(rows, c) == [i \in DOMAIN rows |-> rows[i][c]]

\* (variant) a mean that yields 0 for the empty series
MeanIntsZeroIfEmpty(s) == IF s = <<>> THEN Frac(0, 1) ELSE Frac(SumInts(s), Len(s))

\* Series.mean() of an integer column: NaN for the empty series
MeanInts(s) == IF s = <<>> THEN NaN ELSE Frac(SumInts(s), Len(s))

IsNotNaN(x) == x.k # "nan"

\* Series.mean() of a float column: NaN is skipped; NaN if nothing is left
MeanFloats(s) ==
    LET v == SelectSeq(s, IsNotNaN)
    IN IF v = <<>> THEN NaN ELSE FDivInt(SumFloats(v), Len(v))

---------------------------------------------------------------------------
(* Data frames *)
RequiredColumns ==
    <<"season_end_year", "team", "position", "played", "won", "drawn", "lost",
      "gf", "ga", "gd", "points">>

NoFrame == [loaded |-> FALSE, columns |-> <<>>, rows |-> <<>>]

\* df.columns.str.strip().str.lower(): the raw spelling of a header cell
\* (padding, capitals) is dropped, the normalised name is kept
NormalizeColumns(header) == [i \in DOMAIN header |-> header[i].name]

\* pd.read_csv / pd.read_excel: one row per record, one cell per header cell
ReadRows(f) ==
    LET cols == Range(NormalizeColumns(f.header))
    IN [i \in DOMAIN f.rows |-> [c \in cols |-> f.rows[i][c]]]

DefaultDataPath == [kind |-> "path", ext |-> "csv"]

\* load_data(file_path): a record [df, err].  Every exception raised in the
\* body is caught, reported with st.error and turned into None.
\* str.endswith on the st.file_uploader object (an UploadedFile, not a str)
\* raises AttributeError.
load_data(file_path, f) ==
    IF file_path.kind # "path"
    THEN [df |-> NoFrame, err |-> "AttributeError"]
    ELSE IF file_path.ext \notin {"csv", "xlsx", "xls", "txt"}
    THEN [df |-> NoFrame, err |-> "UnsupportedFormat"]
    ELSE IF ~f.parses
    THEN [df |-> NoFrame, err |-> "ParseError"]
    ELSE LET cols == NormalizeColumns(f.header)
         IN IF "season_end_year" \in Range(cols) /\ ~f.season_numeric
            THEN [df |-> NoFrame, err |-> "TypeCoercionError"]
            ELSE [df |-> [loaded |-> TRUE, columns |-> cols, rows |-> ReadRows(f)],
                  err |-> "none"]

\* [col for col in required_columns if col not in df.columns]
MissingCols(d) ==
    LET Absent(c) == c \notin Range(d.columns)
    IN SelectSeq(RequiredColumns, Absent)

\* sorted(df['season_end_year'].unique())
SeasonList(d) == SetToSortedSeq(Range(Column(d.rows, "season_end_year")))

\* sorted(df['team'].unique())
AllClubs(d) == SetToSortedSeq(Range(Column(d.rows, "team")))

\* 2024 if 2024 in unique_seasons else max_year
LatestSeason(d) ==
    LET u == Range(Column(d.rows, "season_end_year"))
    IN IF LatestSeasonPreferred \in u THEN LatestSeasonPreferred
       ELSE CHOOSE m \in u : \A y \in u : y <= m

\* the multiselect's default: clubs_2024 if clubs_2024 else all_clubs[:5]
DefaultClubs(d) ==
    LET InLatest(r) == r["season_end_year"] = LatestSeason(d)
        clubs_2024 == Range(Column(SelectSeq(d.rows, InLatest), "team"))
        all_clubs == AllClubs(d)
    IN IF clubs_2024 # {} THEN clubs_2024
       ELSE Range(SubSeq(all_clubs, 1, Min(5, Len(all_clubs))))

\* (variant) the club mask applied also when no club is selected
FilterViewAlwaysIsIn(d, start, end, clubs) ==
    LET Keep(r) == /\ r["season_end_year"] >= start /\ r["season_end_year"] <= end
                   /\ r["team"] \in clubs
    IN [loaded |-> TRUE, columns |-> d.columns, rows |-> SelectSeq(d.rows, Keep)]

\* df[(season >= start) & (season <= end)], then, only if selected_clubs is
\* non-empty, [team.isin(selected_clubs)]
FilterView(d, start, end, clubs) ==
    LET InRange(r) == r["season_end_year"] >= start /\ r["season_end_year"] <= end
        IsIn(r) == r["team"] \in clubs
        ranged == SelectSeq(d.rows, InRange)
    IN [loaded |-> TRUE, columns |-> d.columns,
        rows |-> IF clubs # {} THEN SelectSeq(ranged, IsIn) ELSE ranged]

---------------------------------------------------------------------------
(* Group-by and sort *)
TeamsOf(rows) == Range(Column(rows, "team"))

RowsOfTeam(rows, t) == LET Is(r) == r["team"] = t IN SelectSeq(rows, Is)

\* groupby('team')[c].mean() of an integer column: one entry per team, in the
\* order of the sorted group keys
GroupMeanInts(rows, c) ==
    LET keys == SetToSortedSeq(TeamsOf(rows))
    IN [i \in DOMAIN keys |->
          [team |-> keys[i], value |-> MeanInts(Column(RowsOfTeam(rows, keys[i]), c))]]

\* groupby('team')[c].mean() of a float column
GroupMeanFloats(rows, c) ==
    LET keys == SetToSortedSeq(TeamsOf(rows))
    IN [i \in DOMAIN keys |->
          [team |-> keys[i], value |-> MeanFloats(Column(RowsOfTeam(rows, keys[i]), c))]]

\* sort_values(): the default kind is quicksort, which is not stable, so the
\* entries come out ordered by value with NaN last and with entries of equal
\* value in any order.  Every outcome is a member of the set.
Before(x, y, ascending) ==
    \/ x.k # "nan" /\ y.k = "nan"
    \/ IF ascending THEN FLess(x, y) ELSE FLess(y, x)

RECURSIVE SortOutcomes(_, _)
SortOutcomes(S, ascending) ==
    IF S = {} THEN {<<>>}
    ELSE LET firsts == {m \in S : \A e \in S : ~Before(e.value, m.value, ascending)}
         IN UNION {{<<m>> \o r : r \in SortOutcomes(S \ {m}, ascending)} : m \in firsts}

sort_values(series, ascending) == SortOutcomes(Range(series), ascending)

\* (variant) no truncation
headKeepsAll(s, n) == s

\* head(n)
head(s, n) == SubSeq(s, 1, Min(n, Len(s)))

\* filtered_df[c] = values: the frame gains the column, one cell per row
AddColumn(d, c, values) ==
    [loaded |-> d.loaded,
     columns |-> IF c \in Range(d.columns) THEN d.columns ELSE Append(d.columns, c),
     rows |-> [i \in DOMAIN d.rows |->
                 [k \in DOMAIN d.rows[i] \cup {c} |->
                    IF k = c THEN values[i] ELSE d.rows[i][k]]]]

\* (filtered_df['won'] / filtered_df['played']) * 100
WinPct(rows) == [i \in DOMAIN rows |-> FMul(TrueDiv(rows[i]["won"], rows[i]["played"]), 100)]

\* filtered_df['ga'] / filtered_df['played']
GaPerGame(rows) == [i \in DOMAIN rows |-> TrueDiv(rows[i]["ga"], rows[i]["played"])]

\* (variant) gd summed from the gd cells of the rows
GoalsTableSummedGd(rows) ==
    LET keys == SetToSortedSeq(TeamsOf(rows))
    IN [i \in DOMAIN keys |->
          [team |-> keys[i],
           gf |-> SumInts(Column(RowsOfTeam(rows, keys[i]), "gf")),
           ga |-> SumInts(Column(RowsOfTeam(rows, keys[i]), "ga")),
           gd |-> SumInts(Column(RowsOfTeam(rows, keys[i]), "gd"))]]

\* groupby('team').agg({'gf': 'sum', 'ga': 'sum'}), then gd = gf - ga
GoalsTable(rows) ==
    LET keys == SetToSortedSeq(TeamsOf(rows))
        gf(t) == SumInts(Column(RowsOfTeam(rows, t), "gf"))
        ga(t) == SumInts(Column(RowsOfTeam(rows, t), "ga"))
    IN [i \in DOMAIN keys |->
          [team |-> keys[i], gf |-> gf(keys[i]), ga |-> ga(keys[i]),
           gd |-> gf(keys[i]) - ga(keys[i])]]

NoMetrics == [clubs |-> 0, matches |-> 0, avg_points |-> NaN, shown |-> FALSE]

\* nunique of team, sum of played, round(mean of points, 1)
SummaryMetrics(rows) ==
    [clubs |-> Cardinality(TeamsOf(rows)),
     matches |-> SumInts(Column(rows, "played")),
     avg_points |-> Round1(MeanInts(Column(rows, "points"))),
     shown |-> TRUE]

---------------------------------------------------------------------------
(* Inputs *)
MkRow(t, y, pos, played, won, gf, ga, gd, pts) ==
    [c \in Range(RequiredColumns) |->
        CASE c = "season_end_year" -> y
          [] c = "team" -> t
          [] c = "position" -> pos
          [] c = "played" -> played
          [] c = "won" -> won
          [] c = "drawn" -> 0
          [] c = "lost" -> IF played > won THEN played - won ELSE 0
          [] c = "gf" -> gf
          [] c = "ga" -> ga
          [] c = "gd" -> gd
          [] OTHER -> pts]

\* one team's record of one season, its figures fixed by team and season
SeasonRow(t, y) ==
    LET won == (t + y) % 3
    IN MkRow(t, y, t, 2, won, won + 1, t, won + 1 - t, 3 * won)

RECURSIVE SeqsUpTo(_, _)
SeqsUpTo(S, n) ==
    IF n = 0 THEN {<<>>}
    ELSE LET shorter == SeqsUpTo(S, n - 1)
         IN shorter \cup {Append(s, x) : s \in {q \in shorter : Len(q) = n - 1}, x \in S}

Datasets == SeqsUpTo({SeasonRow(t, y) : t \in Teams, y \in Years}, MaxRows)

HeaderOf(names, raw) == [i \in DOMAIN names |-> [name |-> names[i], raw |-> raw]]

Without(names, gone) == LET Kept(c) == c \notin gone IN SelectSeq(names, Kept)

Headers ==
    {HeaderOf(RequiredColumns, "plain"),
     HeaderOf(RequiredColumns, "padded capitals"),
     HeaderOf(Without(RequiredColumns, {"points"}), "plain"),
     HeaderOf(Without(RequiredColumns, {"gd", "points"}), "plain"),
     HeaderOf(Without(RequiredColumns, {"season_end_year"}), "plain")}

GoodFile(rows) ==
    [header |-> HeaderOf(RequiredColumns, "plain"), parses |-> TRUE,
     season_numeric |-> TRUE, rows |-> rows]

SampleRows == <<SeasonRow(1, 2023), SeasonRow(2, 2024), SeasonRow(1, 2025)>>

VariantFiles ==
    {[header |-> h, parses |-> p, season_numeric |-> sn, rows |-> SampleRows] :
        h \in Headers, p \in BOOLEAN, sn \in BOOLEAN}

Files == {GoodFile(rows) : rows \in Datasets} \cup VariantFiles

NoUpload == [present |-> FALSE, ext |-> "none"]
Uploads == {[present |-> TRUE, ext |-> e] : e \in {"csv", "xlsx", "xls", "txt"}}

---------------------------------------------------------------------------
(* The script run *)
RunStart(f, u, isFirst) ==
    /\ pc = "start" /\ first = isFirst /\ uploaded_file = u /\ file = f
    /\ df = NoFrame /\ err = "none" /\ missing_cols = <<>> /\ out = <<>>
    /\ seasons = <<>> /\ start_season = 0 /\ end_season = 0
    /\ selected_clubs = {} /\ filtered_df = NoFrame /\ metrics = NoMetrics
    /\ win_pct_df = <<>> /\ ga_df = <<>> /\ goals_df = <<>>
    /\ avg_pos = <<>> /\ avg_pts = <<>>

Init ==
    \E u \in Uploads \cup {NoUpload} :
        \E f \in (IF u.present THEN VariantFiles ELSE Files) : RunStart(f, u, TRUE)

\* lines 50-62: the uploader, load_data, st.stop() on None
Load ==
    /\ pc = "start"
    /\ LET src == IF uploaded_file.present
                  THEN [kind |-> "upload", ext |-> uploaded_file.ext]
                  ELSE DefaultDataPath
           r == load_data(src, file)
       IN /\ df' = r.df
          /\ err' = r.err
          /\ out' = IF r.err # "none" THEN Append(out, "error") ELSE out
          /\ pc' = IF r.df.loaded THEN "loaded" ELSE "stopped"
    /\ UNCHANGED <<first, uploaded_file, file, missing_cols, seasons, start_season,
                   end_season, selected_clubs, filtered_df, metrics, win_pct_df,
                   ga_df, goals_df, avg_pos, avg_pts>>

\* lines 65-66: the raw data expander
ShowRawData ==
    /\ pc = "loaded"
    /\ out' = Append(out, "raw_data")
    /\ pc' = "raw"
    /\ UNCHANGED <<first, uploaded_file, file, df, err, missing_cols, seasons,
                   start_season, end_season, selected_clubs, filtered_df, metrics,
                   win_pct_df, ga_df, goals_df, avg_pos, avg_pts>>

\* lines 68-72: the required columns
ValidateColumns ==
    /\ pc = "raw"
    /\ missing_cols' = MissingCols(df)
    /\ IF missing_cols' # <<>>
       THEN err' = "MissingColumnsError" /\ out' = Append(out, "error") /\ pc' = "stopped"
       ELSE err' = err /\ out' = out /\ pc' = "validated"
    /\ UNCHANGED <<first, uploaded_file, file, df, seasons, start_season, end_season,
                   selected_clubs, filtered_df, metrics, win_pct_df, ga_df, goals_df,
                   avg_pos, avg_pts>>

\* st.selectbox(label, options, index): with options present, an index outside
\* 0 .. len(options)-1 raises StreamlitAPIException
SelectboxRaises(options, index) ==
    Len(options) > 0 /\ ~(0 <= index /\ index < Len(options))

\* what the select box returns: the option at index in a first run, and in a
\* later run whatever option the user has chosen
SelectboxValues(options, index, isFirst) ==
    IF isFirst THEN {options[index + 1]} ELSE Range(options)

\* lines 77-83: the season list, the two select boxes, the range check.
\* With no options a select box returns None, and None > None raises TypeError.
SelectSeasons ==
    /\ pc = "validated"
    /\ seasons' = SeasonList(df)
    /\ LET n == Len(seasons')
       IN IF n = 0
          THEN /\ err' = "TypeError" /\ out' = Append(out, "exception")
               /\ pc' = "stopped" /\ UNCHANGED <<start_season, end_season>>
          ELSE IF SelectboxRaises(seasons', n - StartIndexOffset)
                  \/ SelectboxRaises(seasons', n - EndIndexOffset)
          THEN /\ err' = "StreamlitAPIException" /\ out' = Append(out, "exception")
               /\ pc' = "stopped" /\ UNCHANGED <<start_season, end_season>>
          ELSE \E s \in SelectboxValues(seasons', n - StartIndexOffset, first) :
               \E e \in SelectboxValues(seasons', n - EndIndexOffset, first) :
                  /\ start_season' = s
                  /\ end_season' = e
                  /\ IF s > e
                     THEN err' = "InvalidRange" /\ out' = Append(out, "error")
                          /\ pc' = "stopped"
                     ELSE err' = err /\ out' = out /\ pc' = "seasons"
    /\ UNCHANGED <<first, uploaded_file, file, df, missing_cols, selected_clubs,
                   filtered_df, metrics, win_pct_df, ga_df, goals_df, avg_pos, avg_pts>>

\* lines 85-103: the club multiselect (its default in a first run, the user's
\* choice later) and the filter
Filter ==
    /\ pc = "seasons"
    /\ \E clubs \in (IF first THEN {DefaultClubs(df)} ELSE SUBSET Range(AllClubs(df))) :
          /\ selected_clubs' = clubs
          /\ filtered_df' = FilterView(df, start_season, end_season, clubs)
    /\ pc' = "filtered"
    /\ UNCHANGED <<first, uploaded_file, file, df, err, missing_cols, out, seasons,
                   start_season, end_season, metrics, win_pct_df, ga_df, goals_df,
                   avg_pos, avg_pts>>

\* lines 106-111: the overview metrics
Overview ==
    /\ pc = "filtered"
    /\ metrics' = SummaryMetrics(filtered_df.rows)
    /\ out' = Append(out, "metrics")
    /\ pc' = "overview"
    /\ UNCHANGED <<first, uploaded_file, file, df, err, missing_cols, seasons,
                   start_season, end_season, selected_clubs, filtered_df, win_pct_df,
                   ga_df, goals_df, avg_pos, avg_pts>>

\* lines 115-126: positions over time and the points distribution, both
\* charts of the filtered frame itself
Tab1 ==
    /\ pc = "overview"
    /\ out' = out \o <<"chart_positions", "chart_points">>
    /\ pc' = "tab1"
    /\ UNCHANGED <<first, uploaded_file, file, df, err, missing_cols, seasons,
                   start_season, end_season, selected_clubs, filtered_df, metrics,
                   win_pct_df, ga_df, goals_df, avg_pos, avg_pts>>

\* lines 128-161: win percentage and goals against per game.  Both columns
\* are assigned into filtered_df.
Tab2 ==
    /\ pc = "tab1"
    /\ LET f1 == AddColumn(filtered_df, "win_pct", WinPct(filtered_df.rows))
           f2 == AddColumn(f1, "ga_per_game", GaPerGame(f1.rows))
       IN /\ win_pct_df' \in sort_values(GroupMeanFloats(f1.rows, "win_pct"), TRUE)
          /\ ga_df' \in sort_values(GroupMeanFloats(f2.rows, "ga_per_game"), TRUE)
          /\ filtered_df' = f2
    /\ out' = out \o <<"chart_win_pct", "chart_ga_per_game">>
    /\ pc' = "tab2"
    /\ UNCHANGED <<first, uploaded_file, file, df, err, missing_cols, seasons,
                   start_season, end_season, selected_clubs, metrics, goals_df,
                   avg_pos, avg_pts>>

\* lines 164-178: goals for and against, goal difference
Tab3 ==
    /\ pc = "tab2"
    /\ goals_df' = GoalsTable(filtered_df.rows)
    /\ out' = out \o <<"chart_goals", "chart_gd">>
    /\ pc' = "tab3"
    /\ UNCHANGED <<first, uploaded_file, file, df, err, missing_cols, seasons,
                   start_season, end_season, selected_clubs, filtered_df, metrics,
                   win_pct_df, ga_df, avg_pos, avg_pts>>

\* line 182
AvgPosOutcomes(rows) ==
    {head(s, TopN) : s \in sort_values(GroupMeanInts(rows, "position"), TRUE)}

\* (variant) the points ranking sorted ascending
AvgPtsAscending(rows) ==
    {head(s, TopN) : s \in sort_values(GroupMeanInts(rows, "points"), TRUE)}

\* line 198
AvgPtsOutcomes(rows) ==
    {head(s, TopN) : s \in sort_values(GroupMeanInts(rows, "points"), FALSE)}

\* lines 180-211: the two top-10 rankings
Tab4 ==
    /\ pc = "tab3"
    /\ avg_pos' \in AvgPosOutcomes(filtered_df.rows)
    /\ avg_pts' \in AvgPtsOutcomes(filtered_df.rows)
    /\ out' = out \o <<"chart_avg_pos", "chart_avg_pts">>
    /\ pc' = "done"
    /\ UNCHANGED <<first, uploaded_file, file, df, err, missing_cols, seasons,
                   start_season, end_season, selected_clubs, filtered_df, metrics,
                   win_pct_df, ga_df, goals_df>>

\* a widget change reruns the script from the top with the same file
Rerun ==
    /\ pc \in {"done", "stopped"}
    /\ pc = "stopped" => err = "InvalidRange"
    /\ pc' = "start" /\ first' = FALSE
    /\ df' = NoFrame /\ err' = "none" /\ missing_cols' = <<>> /\ out' = <<>>
    /\ seasons' = <<>> /\ start_season' = 0 /\ end_season' = 0
    /\ selected_clubs' = {} /\ filtered_df' = NoFrame /\ metrics' = NoMetrics
    /\ win_pct_df' = <<>> /\ ga_df' = <<>> /\ goals_df' = <<>>
    /\ avg_pos' = <<>> /\ avg_pts' = <<>>
    /\ UNCHANGED <<uploaded_file, file>>

Next ==
    \/ Load \/ ShowRawData \/ ValidateColumns \/ SelectSeasons \/ Filter
    \/ Overview \/ Tab1 \/ Tab2 \/ Tab3 \/ Tab4 \/ Rerun

Spec == Init /\ [][Next]_vars

---------------------------------------------------------------------------
(* The tabs as functions of the filtered view: the run is taken up at the  *)
(* first tab, with views drawn from two families.  Each view is the        *)
(* filter's result on a file that holds the view's rows (season 2024)      *)
(* after four rows of two other clubs, with the season range 2024-2024 and *)
(* the view's clubs and club 98 selected.                                  *)
FillerRows ==
    <<MkRow(98, 2021, 1, 2, 1, 1, 1, 0, 3), MkRow(99, 2022, 1, 2, 1, 1, 1, 0, 3),
      MkRow(99, 2023, 1, 2, 1, 1, 1, 0, 3), MkRow(99, 2024, 1, 2, 1, 1, 1, 0, 3)>>

ViewYear == FillerRows[4]["season_end_year"]

\* rows that vary what the aggregates read: played 0 or 2, won 0 or 1, goals, and
\* a gd cell that agrees with gf - ga (1) or does not (7)
AggRows ==
    {MkRow(t, ViewYear, t, pw[1], pw[2], g[1], g[2], g[3], 3 * pw[2]) :
        t \in Teams,
        pw \in {<<0, 0>>, <<0, 1>>, <<2, 1>>},
        g \in {<<1, 0, 1>>, <<2, 1, 7>>}}

AggViews == SeqsUpTo(AggRows, MaxAggRows)

\* rankings: clubs 1..k; club t holds position t with 3 * (k + 1 - t) points,
\* except that a club in `tied` has two seasons, at positions t and t + 2 with
\* 6 points fewer in the second, so that its averages equal those of club
\* t + 1.  Rows come in ascending or descending club order.
RankRowsOf(t, k, tied) ==
    LET pts == 3 * (k + 2 - t)
    IN IF t \in tied
       THEN <<MkRow(t, ViewYear, t, 38, t, 1, t, 1 - t, pts),
              MkRow(t, ViewYear, t + 2, 38, t, 1, t, 1 - t, pts - 6)>>
       ELSE <<MkRow(t, ViewYear, t, 38, t, 1, t, 1 - t, pts)>>

RECURSIVE RankView(_, _, _, _)
RankView(t, k, tied, ascending) ==
    IF t > k THEN <<>>
    ELSE IF ascending
    THEN RankRowsOf(t, k, tied) \o RankView(t + 1, k, tied, ascending)
    ELSE RankView(t + 1, k, tied, ascending) \o RankRowsOf(t, k, tied)

RankViews ==
    {RankView(1, k, tied, asc) :
        k \in 0 .. NumRankTeams,
        tied \in {T \in SUBSET (1 .. NumRankTeams) : Cardinality(T) <= 2},
        asc \in BOOLEAN}

AtTab1(viewRows) ==
    LET f == GoodFile(FillerRows \o viewRows)
        d == load_data(DefaultDataPath, f).df
        clubs == {98} \cup TeamsOf(viewRows)
        v == FilterView(d, ViewYear, ViewYear, clubs)
    IN /\ pc = "tab1" /\ first = FALSE /\ uploaded_file = NoUpload /\ file = f
       /\ df = d /\ err = "none" /\ missing_cols = <<>>
       /\ out = <<"raw_data", "metrics", "chart_positions", "chart_points">>
       /\ seasons = SeasonList(d) /\ start_season = ViewYear /\ end_season = ViewYear
       /\ selected_clubs = clubs /\ filtered_df = v
       /\ metrics = SummaryMetrics(v.rows)
       /\ win_pct_df = <<>> /\ ga_df = <<>> /\ goals_df = <<>>
       /\ avg_pos = <<>> /\ avg_pts = <<>>

InitTabs == \E rows \in AggViews \cup RankViews : AtTab1(rows)

NextTabs == Tab2 \/ Tab3 \/ Tab4

SpecTabs == InitTabs /\ [][NextTabs]_vars

---------------------------------------------------------------------------
(* Properties.  The figures they compare against are computed here from    *)
(* the rows, by position, not by the operators of the pipeline.            *)
Occurrences(rows, r) == Cardinality({i \in DOMAIN rows : rows[i] = r})

IndicesOf(rows, t) == {i \in DOMAIN rows : rows[i]["team"] = t}

RECURSIVE TotalAt(_, _, _)
TotalAt(rows, I, c) ==
    IF I = {} THEN 0
    ELSE LET i == CHOOSE x \in I : TRUE IN rows[i][c] + TotalAt(rows, I \ {i}, c)

TeamTotal(rows, t, c) == TotalAt(rows, IndicesOf(rows, t), c)
TeamCount(rows, t) == Cardinality(IndicesOf(rows, t))

FirstSeen(rows, t) == CHOOSE i \in IndicesOf(rows, t) : \A j \in IndicesOf(rows, t) : i <= j

EntryTeams(table) == {table[i].team : i \in DOMAIN table}

OnePerTeam(table) == \A i, j \in DOMAIN table : table[i].team = table[j].team => i = j

\* per team, <<sum of integer column c, number of rows>>
TeamSums(rows, c) ==
    [t \in TeamsOf(rows) |-> <<TeamTotal(rows, t, c), TeamCount(rows, t)>>]

\* the mean a[1]/a[2] is strictly less than, or equal to, the mean b[1]/b[2]
MeanLess(a, b) == a[1] * b[2] < b[1] * a[2]
MeanEqual(a, b) == a[1] * b[2] = b[1] * a[2]

\* the entry's value is its team's mean
IsTeamMean(e, sums) ==
    /\ e.value.k = "num"
    /\ e.value.n * sums[e.team][2] = e.value.d * sums[e.team][1]

\* C1: right after the filter, the view holds exactly the rows of the
\* dataset with start_season <= season_end_year <= end_season and
\* (selected_clubs empty or team in selected_clubs), each as often as the
\* dataset holds it, and no other row.
C1_FilterExact ==
    pc = "filtered" =>
        /\ start_season <= end_season
        /\ filtered_df.columns = df.columns
        /\ \A r \in Range(df.rows) \cup Range(filtered_df.rows) :
              Occurrences(filtered_df.rows, r) =
                 IF /\ start_season <= r["season_end_year"]
                    /\ r["season_end_year"] <= end_season
                    /\ (selected_clubs = {} \/ r["team"] \in selected_clubs)
                 THEN Occurrences(df.rows, r) ELSE 0

C1_Witness ==
    /\ pc = "filtered" /\ selected_clubs = {}
    /\ Cardinality(TeamsOf(filtered_df.rows)) = 2
    /\ Len(filtered_df.rows) < Len(df.rows)

\* C2: a run that ended in UnsupportedFormat, TypeCoercionError,
\* MissingColumnsError or InvalidRange has rendered nothing but the error:
\* no dataset contents, no metric, no chart.
C2_NoPartialRender ==
    err \in {"UnsupportedFormat", "TypeCoercionError", "MissingColumnsError",
             "InvalidRange"} =>
        \A i \in DOMAIN out : out[i] = "error"

\* C3: once load has run on a well-formed source of a supported format,
\* default path or upload, the run holds the Dataset parsed from it.
C3_LoadSucceeds ==
    (/\ pc # "start"
     /\ file.parses /\ file.season_numeric
     /\ (uploaded_file.present => uploaded_file.ext \in {"csv", "xlsx", "xls", "txt"}))
    => /\ df.loaded
       /\ df.rows = ReadRows(file)

\* C4: no step from the filter to the last tab changes the Dataset or the
\* filtered view.
DerivationKeepsFrames ==
    pc \in {"filtered", "overview", "tab1", "tab2", "tab3"} =>
        (df' = df /\ filtered_df' = filtered_df)

C4_NoMutation == [][DerivationKeepsFrames]_vars

\* C5: with a played = 0 row in the view, the win percentage table has, for
\* each team with such a row, the mean of won/played*100 over the team's
\* other rows (the row excluded) or that sum over all the team's rows (the
\* row counted as 0), and nothing has been raised.
PlayedRows(rows, t) == {i \in IndicesOf(rows, t) : rows[i]["played"] # 0}

RECURSIVE PctTotal(_, _)
PctTotal(rows, I) ==
    IF I = {} THEN Frac(0, 1)
    ELSE LET i == CHOOSE x \in I : TRUE
         IN FAdd(Frac(100 * rows[i]["won"], rows[i]["played"]), PctTotal(rows, I \ {i}))

MeanExcluding(rows, t) ==
    IF PlayedRows(rows, t) = {} THEN NaN
    ELSE FDivInt(PctTotal(rows, PlayedRows(rows, t)), Cardinality(PlayedRows(rows, t)))

MeanZeroing(rows, t) ==
    FDivInt(PctTotal(rows, PlayedRows(rows, t)), TeamCount(rows, t))

C5_ZeroPlayedHandled ==
    pc \in {"tab2", "tab3", "done"} =>
        /\ err = "none"
        /\ \A i \in DOMAIN win_pct_df :
              LET t == win_pct_df[i].team
              IN PlayedRows(filtered_df.rows, t) # IndicesOf(filtered_df.rows, t) =>
                    win_pct_df[i].value \in
                       {MeanExcluding(filtered_df.rows, t), MeanZeroing(filtered_df.rows, t)}

\* C6: with an empty view the run reports no error and can always take its
\* next step up to the last tab; the metrics are 0 clubs, 0 matches and NaN
\* (no data) for the average points, and every derived table is empty.
C6_EmptyViewCompletes ==
    (pc \in {"filtered", "overview", "tab1", "tab2", "tab3", "done"}
       /\ filtered_df.rows = <<>>) =>
        /\ err = "none"
        /\ pc # "done" => ENABLED (Overview \/ Tab1 \/ Tab2 \/ Tab3 \/ Tab4)
        /\ metrics.shown =>
              metrics.clubs = 0 /\ metrics.matches = 0 /\ metrics.avg_points.k = "nan"
        /\ win_pct_df = <<>> /\ ga_df = <<>> /\ goals_df = <<>>
        /\ avg_pos = <<>> /\ avg_pts = <<>>

C6_Witness ==
    /\ pc = "done" /\ filtered_df.rows = <<>> /\ df.rows # <<>>
    /\ selected_clubs # {} /\ metrics.shown
    /\ Len(out) = 10

\* C7 as stated: in both rankings two teams of equal average stand in the
\* order of their first rows in the view, and a team dropped by the
\* truncation that equals a kept team's average was first seen after it.
FirstSeenOrder(rows, table, c) ==
    \A sums \in {TeamSums(rows, c)} :
    \A seen \in {[t \in TeamsOf(rows) |-> FirstSeen(rows, t)]} :
       /\ \A i, j \in DOMAIN table :
             (i < j /\ MeanEqual(sums[table[i].team], sums[table[j].team])) =>
                 seen[table[i].team] < seen[table[j].team]
       /\ \A i \in DOMAIN table : \A t \in TeamsOf(rows) \ EntryTeams(table) :
             MeanEqual(sums[table[i].team], sums[t]) => seen[table[i].team] < seen[t]

C7_TiesByFirstSeen ==
    pc = "done" =>
        /\ FirstSeenOrder(filtered_df.rows, avg_pos, "position")
        /\ FirstSeenOrder(filtered_df.rows, avg_pts, "points")

\* C7 as amended: both rankings are ordered by the average alone (position
\* ascending, points descending): teams of equal average stand next to each
\* other, and no team dropped by the truncation has a strictly better
\* average than a kept one.  Which of the tied teams comes first, or is
\* kept, is not decided by the order of the rows.
OrderedByMean(rows, table, c, ascending) ==
    \A sums \in {TeamSums(rows, c)} :
    LET Better(a, b) == IF ascending THEN MeanLess(sums[a], sums[b])
                        ELSE MeanLess(sums[b], sums[a])
    IN /\ \A i, j \in DOMAIN table : i < j => ~Better(table[j].team, table[i].team)
       /\ \A i, j \in DOMAIN table :
             (i < j /\ MeanEqual(sums[table[i].team], sums[table[j].team])) =>
                 \A m \in i .. j : MeanEqual(sums[table[i].team], sums[table[m].team])
       /\ \A i \in DOMAIN table : \A t \in TeamsOf(rows) \ EntryTeams(table) :
             ~Better(t, table[i].team)

C7_TiesByMeanOnly ==
    pc = "done" =>
        /\ OrderedByMean(filtered_df.rows, avg_pos, "position", TRUE)
        /\ OrderedByMean(filtered_df.rows, avg_pts, "points", FALSE)

\* a tie at the tenth place: the last kept team and a dropped team have the
\* same average position, and the dropped one was seen first
C7_Witness ==
    /\ pc = "done" /\ Len(avg_pos) = TopN
    /\ LET rows == filtered_df.rows
           sums == TeamSums(rows, "position")
       IN \E t \in TeamsOf(rows) \ EntryTeams(avg_pos) :
             /\ MeanEqual(sums[avg_pos[TopN].team], sums[t])
             /\ FirstSeen(rows, t) < FirstSeen(rows, avg_pos[TopN].team)

\* C8: the position ranking has min(10, number of teams) entries, one per
\* team, each with the team's mean position, in ascending order of the
\* mean, no dropped team having a lower mean than a kept one; it is empty
\* exactly when the view is.
C8_TopTenPositions ==
    pc = "done" =>
        LET rows == filtered_df.rows
        IN \A sums \in {TeamSums(rows, "position")} :
           /\ Len(avg_pos) <= 10
           /\ Len(avg_pos) = Min(10, Cardinality(TeamsOf(rows)))
           /\ EntryTeams(avg_pos) \subseteq TeamsOf(rows)
           /\ OnePerTeam(avg_pos)
           /\ \A i \in DOMAIN avg_pos : IsTeamMean(avg_pos[i], sums)
           /\ \A i, j \in DOMAIN avg_pos :
                 i < j => ~MeanLess(sums[avg_pos[j].team], sums[avg_pos[i].team])
           /\ \A i \in DOMAIN avg_pos : \A t \in TeamsOf(rows) \ EntryTeams(avg_pos) :
                 ~MeanLess(sums[t], sums[avg_pos[i].team])
           /\ (avg_pos = <<>>) <=> (rows = <<>>)

C8_Witness ==
    /\ pc = "done" /\ Len(avg_pos) = 10
    /\ Cardinality(TeamsOf(filtered_df.rows)) > 10
    /\ \E i \in DOMAIN avg_pos : TeamCount(filtered_df.rows, avg_pos[i].team) > 1

\* C9: the goals table has one entry per team of the view, with gf and ga
\* the team's sums and gd their difference, whatever the gd cells of the
\* rows hold.
C9_GoalDifference ==
    pc \in {"tab3", "done"} =>
        LET rows == filtered_df.rows
        IN /\ EntryTeams(goals_df) = TeamsOf(rows)
           /\ OnePerTeam(goals_df)
           /\ \A i \in DOMAIN goals_df :
                 LET e == goals_df[i]
                 IN /\ e.gf = TeamTotal(rows, e.team, "gf")
                    /\ e.ga = TeamTotal(rows, e.team, "ga")
                    /\ e.gd = TeamTotal(rows, e.team, "gf") - TeamTotal(rows, e.team, "ga")

C9_Witness ==
    /\ pc = "tab3"
    /\ \E i \in DOMAIN goals_df :
          /\ TeamCount(filtered_df.rows, goals_df[i].team) > 1
          /\ goals_df[i].gd # TeamTotal(filtered_df.rows, goals_df[i].team, "gd")

\* C10: in a first run on a dataset that passed the column check and has a
\* season, the default start and end seasons are members of the season
\* list with start <= end and the run goes on to the filter.
C10_DefaultRangeValid ==
    (/\ first /\ df.loaded /\ df.rows # <<>>
     /\ pc \notin {"start", "loaded", "raw", "validated"}
     /\ missing_cols = <<>>)
    => /\ err = "none"
       /\ start_season \in Range(seasons) /\ end_season \in Range(seasons)
       /\ start_season <= end_season
====
